---- MODULE Spec2Model ----
(***************************************************************************)
(* A model of the sandboxed code-execution subsystem of CortexON:          *)
(*   cortex_on/utils/docker_executor.py  (DockerEnvironment, the registry  *)
(*   docker_environments, run_docker_container) and the compile-and-run    *)
(*   path of cortex_on/agents/code_agent.py (execute_shell).               *)
(*                                                                         *)
(* A shell command line is modelled as a record naming its programs and    *)
(* the operator that joins them, with the meaning a POSIX shell gives the  *)
(* line ("a && b" runs b only when a exits 0).  A raw language string is a *)
(* sequence of tokens, each a word or a blank, so that lower() and strip() *)
(* are computed.                                                           *)
(* The Docker daemon is the environment: every call of its API either      *)
(* answers or raises, chosen nondeterministically by the actions.          *)
(***************************************************************************)
EXTENDS Integers, Sequences, FiniteSets, TLC

(***************************************************************************)
(* Bounds of the model.                                                    *)
(***************************************************************************)
\* DockerEnvironment objects ever constructed
MaxEnvs == 2
\* containers ever created by the daemon
MaxConts == 2
\* session ids drawn from uuid.uuid4()
MaxUuid == 1

(***************************************************************************)
(* The language tables.                                                    *)
(***************************************************************************)
LANGUAGE_IMAGES ==
    {"python", "java", "cpp", "javascript", "typescript", "ruby", "go", "rust",
     "php", "csharp", "kotlin", "swift", "r", "scala", "perl", "dart", "julia"}

LANGUAGE_EXTENSIONS ==
    [l \in {"python", "java", "cpp", "javascript", "typescript", "ruby", "go",
            "rust", "php", "csharp", "kotlin", "swift", "r", "scala", "perl",
            "dart", "julia"} |->
        CASE l = "python" -> ".py"
          [] l = "java" -> ".java"
          [] l = "cpp" -> ".cpp"
          [] l = "javascript" -> ".js"
          [] l = "typescript" -> ".ts"
          [] l = "ruby" -> ".rb"
          [] l = "go" -> ".go"
          [] l = "rust" -> ".rs"
          [] l = "php" -> ".php"
          [] l = "csharp" -> ".cs"
          [] l = "kotlin" -> ".kt"
          [] l = "swift" -> ".swift"
          [] l = "r" -> ".r"
          [] l = "scala" -> ".scala"
          [] l = "perl" -> ".pl"
          [] l = "dart" -> ".dart"
          [] l = "julia" -> ".jl"]

\* dict.get(key, default) on LANGUAGE_EXTENSIONS
ExtensionOf(l) ==
    IF l \in DOMAIN LANGUAGE_EXTENSIONS THEN LANGUAGE_EXTENSIONS[l] ELSE ".txt"

\* The stages of the command line EXECUTION_COMMANDS[l](filename): a stage is
\* one program of the line, the stages are joined by the line's "&&".
\* "compile" stages leave /tmp/program behind, "binary" runs /tmp/program,
\* "interp" runs the source file with the language's interpreter.
\* a command line that runs the program whatever the compiler's status:
\* "compile ; program"
CompileAndAlwaysRun(tool, filename) ==
    [sep |-> ";", merged |-> FALSE,
     stages |-> << [kind |-> "compile", tool |-> tool, file |-> filename],
                   [kind |-> "binary", tool |-> "/tmp/program", file |-> filename] >>]

CompileAndRun(tool, filename) ==
    [sep |-> "&&", merged |-> FALSE,
     stages |-> << [kind |-> "compile", tool |-> tool, file |-> filename],
                   [kind |-> "binary", tool |-> "/tmp/program", file |-> filename] >>]

Interpret(tool, filename) ==
    [sep |-> "&&", merged |-> FALSE,
     stages |-> << [kind |-> "interp", tool |-> tool, file |-> filename] >>]

\* "tool filename 2>&1": the program's stderr goes to its stdout
InterpretMerged(tool, filename) ==
    [sep |-> "&&", merged |-> TRUE,
     stages |-> << [kind |-> "interp", tool |-> tool, file |-> filename] >>]

\* os.path.splitext(filename)[0]
Stem(filename) ==
    CASE filename = "program.py" -> "program"
      [] filename = "program.cpp" -> "program"
      [] filename = "program.txt" -> "program"
      [] filename = "program.java" -> "program"
      [] OTHER -> filename

EXECUTION_COMMANDS(l, filename) ==
    CASE l = "python" -> Interpret("python", filename)
      [] l = "java" -> Interpret("java", Stem(filename))
      [] l = "cpp" -> CompileAndRun("g++", filename)
      [] l = "javascript" -> Interpret("node", filename)
      [] l = "typescript" -> Interpret("npx ts-node", filename)
      [] l = "ruby" -> Interpret("ruby", filename)
      [] l = "go" -> Interpret("go run", filename)
      [] l = "rust" -> CompileAndRun("rustc", filename)
      [] l = "php" -> Interpret("php", filename)
      [] l = "csharp" -> Interpret("dotnet run", filename)
      [] l = "kotlin" -> CompileAndRun("kotlinc", filename)
      [] l = "swift" -> Interpret("swift", filename)
      [] l = "r" -> Interpret("Rscript", filename)
      [] l = "scala" -> Interpret("scala", filename)
      [] l = "perl" -> Interpret("perl", filename)
      [] l = "dart" -> InterpretMerged("dart run", filename)
      [] l = "julia" -> InterpretMerged("julia", filename)

EXECUTION_COMMANDS_KEYS ==
    {"python", "java", "cpp", "javascript", "typescript", "ruby", "go", "rust",
     "php", "csharp", "kotlin", "swift", "r", "scala", "perl", "dart", "julia"}

(***************************************************************************)
(* Language normalisation: language.lower().strip(), then the alias table. *)
(***************************************************************************)
\* str.lower() on one token
LowerToken(t) ==
    CASE t = "PY" -> "py"
      [] t = "Python" -> "python"
      [] t = "PYTHON3" -> "python3"
      [] t = "C++" -> "c++"
      [] t = "CPP" -> "cpp"
      [] OTHER -> t

Lower(s) == [i \in 1..Len(s) |-> LowerToken(s[i])]

IsBlank(t) == t = " "

RECURSIVE LStrip(_)
LStrip(s) ==
    IF s # << >> /\ IsBlank(Head(s)) THEN LStrip(Tail(s)) ELSE s

RECURSIVE RStrip(_)
RStrip(s) ==
    IF s # << >> /\ IsBlank(s[Len(s)]) THEN RStrip(SubSeq(s, 1, Len(s) - 1)) ELSE s

Strip(s) == RStrip(LStrip(s))

\* the text of a stripped string: its one word ("" for the empty string)
Text(s) == IF s = << >> THEN "" ELSE s[1]

language_mapping ==
    [a \in {"python3", "py", "js", "ts", "c++", "c#", "node", "nodejs", "rb",
            "golang", "rs", "kt", "dotnet", "dot-net", "pl", "php7", "php8",
            "jl", "dart2", "scala3", "r-lang"} |->
        CASE a \in {"python3", "py"} -> "python"
          [] a \in {"js", "node", "nodejs"} -> "javascript"
          [] a = "ts" -> "typescript"
          [] a = "c++" -> "cpp"
          [] a \in {"c#", "dotnet", "dot-net"} -> "csharp"
          [] a = "rb" -> "ruby"
          [] a = "golang" -> "go"
          [] a = "rs" -> "rust"
          [] a = "kt" -> "kotlin"
          [] a = "pl" -> "perl"
          [] a \in {"php7", "php8"} -> "php"
          [] a = "jl" -> "julia"
          [] a = "dart2" -> "dart"
          [] a = "scala3" -> "scala"
          [] a = "r-lang" -> "r"]

\* language_mapping.get(language, language)
MapAlias(l) == IF l \in DOMAIN language_mapping THEN language_mapping[l] ELSE l

NormalizeLanguage(raw) == MapAlias(Text(Strip(Lower(raw))))

\* dict.get(key, key)
GetOrSelf(table, key) == IF key \in DOMAIN table THEN table[key] ELSE key

\* the language_mapping of execute_code
execute_code_language_mapping ==
    [a \in {"python3", "py", "js", "ts", "c++", "c#", "node", "nodejs", "rb",
            "golang", "rs", "kt", "dotnet", "dot-net", "pl", "php7", "php8",
            "jl", "dart2", "scala3", "r-lang"} |->
        CASE a \in {"python3", "py"} -> "python"
          [] a \in {"js", "node", "nodejs"} -> "javascript"
          [] a = "ts" -> "typescript"
          [] a = "c++" -> "cpp"
          [] a \in {"c#", "dotnet", "dot-net"} -> "csharp"
          [] a = "rb" -> "ruby"
          [] a = "golang" -> "go"
          [] a = "rs" -> "rust"
          [] a = "kt" -> "kotlin"
          [] a = "pl" -> "perl"
          [] a \in {"php7", "php8"} -> "php"
          [] a = "jl" -> "julia"
          [] a = "dart2" -> "dart"
          [] a = "scala3" -> "scala"
          [] a = "r-lang" -> "r"]

\* execute_code: language.lower().strip(), then its own alias table
ExecuteCodeLanguage(raw) ==
    GetOrSelf(execute_code_language_mapping, Text(Strip(Lower(raw))))

\* an alias table in which an alias leads to another alias
language_aliases_chained ==
    [a \in {"python3", "py", "js", "ts", "c++", "c#", "node", "nodejs", "rb",
            "golang", "rs", "kt", "dotnet", "dot-net", "pl", "php7", "php8",
            "jl", "dart2", "scala3", "r-lang", "java", "c"} |->
        CASE a = "python3" -> "python"
          [] a = "py" -> "python3"
          [] a \in {"js", "node", "nodejs"} -> "javascript"
          [] a = "ts" -> "typescript"
          [] a = "c++" -> "cpp"
          [] a \in {"c#", "dotnet", "dot-net"} -> "csharp"
          [] a = "rb" -> "ruby"
          [] a = "golang" -> "go"
          [] a = "rs" -> "rust"
          [] a = "kt" -> "kotlin"
          [] a = "pl" -> "perl"
          [] a \in {"php7", "php8"} -> "php"
          [] a = "jl" -> "julia"
          [] a = "dart2" -> "dart"
          [] a = "scala3" -> "scala"
          [] a = "r-lang" -> "r"
          [] a = "java" -> "java"
          [] a = "c" -> "c"]

\* the language_aliases of code_formatter.normalize_language
language_aliases ==
    [a \in {"python3", "py", "js", "ts", "c++", "c#", "node", "nodejs", "rb",
            "golang", "rs", "kt", "dotnet", "dot-net", "pl", "php7", "php8",
            "jl", "dart2", "scala3", "r-lang", "java", "c"} |->
        CASE a \in {"python3", "py"} -> "python"
          [] a \in {"js", "node", "nodejs"} -> "javascript"
          [] a = "ts" -> "typescript"
          [] a = "c++" -> "cpp"
          [] a \in {"c#", "dotnet", "dot-net"} -> "csharp"
          [] a = "rb" -> "ruby"
          [] a = "golang" -> "go"
          [] a = "rs" -> "rust"
          [] a = "kt" -> "kotlin"
          [] a = "pl" -> "perl"
          [] a \in {"php7", "php8"} -> "php"
          [] a = "jl" -> "julia"
          [] a = "dart2" -> "dart"
          [] a = "scala3" -> "scala"
          [] a = "r-lang" -> "r"
          [] a = "java" -> "java"
          [] a = "c" -> "c"]

\* code_formatter.normalize_language
normalize_language(raw) == GetOrSelf(language_aliases, Text(Strip(Lower(raw))))

(***************************************************************************)
(* Programs.  A source text is one of a few programs, told apart by what   *)
(* running them does.                                                      *)
(***************************************************************************)
\* "" the empty file, "hello" prints, "bad" does not compile (or, run by an
\* interpreter, ends with status 1), "loop" never terminates, "exit42"
\* calls exit(42)
Codes == {"", "hello", "bad", "loop", "exit42"}

NoFile == "<absent>"

\* what a source does once it runs; "streams" writes "out" to stdout and
\* "err" to stderr, "class Hello" is a Java source that declares public
\* class Hello, "uncalled" defines a function that prints "never" and does
\* not call it
Behaviour(src) ==
    CASE src = "hello" -> [exit |-> 0, out |-> "hello", err |-> "", hang |-> FALSE]
      [] src = "bad" -> [exit |-> 1, out |-> "", err |-> "diagnostic", hang |-> FALSE]
      [] src = "loop" -> [exit |-> 0, out |-> "", err |-> "", hang |-> TRUE]
      [] src = "streams" -> [exit |-> 0, out |-> "out", err |-> "err", hang |-> FALSE]
      [] src = "class Hello" ->
            [exit |-> 0, out |-> "hello", err |-> "", hang |-> FALSE]
      [] src = "exit42" -> [exit |-> 42, out |-> "", err |-> "", hang |-> FALSE]
      [] OTHER -> [exit |-> 0, out |-> "", err |-> "", hang |-> FALSE]

\* the text of the print statement in a source ("" if it has none)
PrintStatement(src) ==
    CASE src \in {"hello", "class Hello"} -> "hello"
      [] src = "streams" -> "out"
      [] src = "uncalled" -> "never"
      [] OTHER -> ""

\* whether a compiler accepts the source (an empty file has no main)
Compiles(src) ==
    src \in {"hello", "loop", "exit42", "streams", "class Hello", "uncalled"}

\* the toolchain an image ships: the programs of its own command line
ImageHas(image, tool) ==
    /\ image \in EXECUTION_COMMANDS_KEYS
    /\ \E i \in 1..Len(EXECUTION_COMMANDS(image, "f").stages) :
          EXECUTION_COMMANDS(image, "f").stages[i].tool = tool

\* a file system maps the names of the files it holds to their contents
FileAt(fs, f) == IF f \in DOMAIN fs THEN fs[f] ELSE NoFile

Put(fs, f, content) ==
    [x \in DOMAIN fs \cup {f} |-> IF x = f THEN content ELSE fs[x]]

\* the words a shell splits an unquoted file name into
Words(name) ==
    CASE name = "my notes.txt" -> <<"my", "notes.txt">>
      [] OTHER -> <<name>>

(***************************************************************************)
(* The shell inside a container.  Every operator returns                   *)
(*   [exit, out, err, hang, fs, trace]                                     *)
(* fs the file system afterwards, trace the programs that ran with their   *)
(* exit statuses, in order.                                                *)
(***************************************************************************)
Outcome(exit, out, err, fs, trace) ==
    [exit |-> exit, out |-> out, err |-> err, hang |-> FALSE, fs |-> fs,
     trace |-> trace]

\* one program of a command line; built is the source /tmp/program was
\* compiled from by an earlier stage of the same line (NoFile if none)
RunStage(image, fs, st, built) ==
    LET src == IF st.kind = "binary" THEN built ELSE FileAt(fs, st.file)
        b == Behaviour(src)
    IN  IF st.kind # "binary" /\ ~ImageHas(image, st.tool)
        THEN [exit |-> 127, out |-> "", err |-> "executable file not found",
              hang |-> FALSE, built |-> built]
        ELSE IF src = NoFile
        THEN [exit |-> 1, out |-> "", err |-> "No such file or directory",
              hang |-> FALSE, built |-> built]
        ELSE IF st.kind = "compile"
        THEN IF Compiles(src)
             THEN [exit |-> 0, out |-> "", err |-> "", hang |-> FALSE, built |-> src]
             ELSE [exit |-> 1, out |-> "", err |-> "diagnostic", hang |-> FALSE,
                   built |-> built]
        ELSE [exit |-> b.exit, out |-> b.out, err |-> b.err, hang |-> b.hang,
              built |-> built]

\* a line that ends with the stage st: r is what the stage did
Ended(st, r, fs) ==
    [exit |-> r.exit, out |-> r.out, err |-> r.err, hang |-> r.hang, fs |-> fs,
     trace |-> << [kind |-> st.kind, tool |-> st.tool, exit |-> r.exit,
                   timeout |-> FALSE] >>]

\* a stage followed by the rest of its line: the status is the last one
Joined(first, rest) ==
    [exit |-> rest.exit, out |-> first.out \o rest.out,
     err |-> first.err \o rest.err, hang |-> rest.hang, fs |-> rest.fs,
     trace |-> first.trace \o rest.trace]

\* the stages of a line from stage i on; AfterStage: stage i did r
RECURSIVE RunStages(_, _, _, _, _), AfterStage(_, _, _, _, _)
RunStages(image, fs, line, i, built) ==
    IF i > Len(line.stages)
    THEN Outcome(0, "", "", fs, << >>)
    ELSE AfterStage(image, fs, line, i,
                    RunStage(image, fs, line.stages[i], built))

AfterStage(image, fs, line, i, r) ==
    IF r.hang \/ i = Len(line.stages) \/ (line.sep = "&&" /\ r.exit # 0)
    THEN Ended(line.stages[i], r, fs)
    ELSE Joined(Ended(line.stages[i], r, fs),
                RunStages(image, fs, line, i + 1, r.built))

\* the file a command names, as the shell hands it to the program: a quoted
\* name is one word, an unquoted name is split at its blanks
Named(cmd) == IF cmd.quoted THEN <<cmd.file>> ELSE Words(cmd.file)

\* test -f file && echo yes || echo no
Test(fs, names, yes, no) ==
    Outcome(0,
            IF Len(names) = 1 /\ FileAt(fs, names[1]) # NoFile THEN yes ELSE no,
            IF Len(names) = 1 THEN "" ELSE "test: too many arguments",
            fs, << >>)

\* cat file
Cat(fs, names) ==
    IF \A i \in 1..Len(names) : FileAt(fs, names[i]) # NoFile
    THEN Outcome(0,
                 IF Len(names) = 1 THEN FileAt(fs, names[1])
                 ELSE FileAt(fs, names[1]) \o FileAt(fs, names[2]),
                 "", fs, << >>)
    ELSE Outcome(1, "", "No such file or directory", fs, << >>)

\* rm -f file: the words of the name are removed, the status is 0
Rm(fs, names) ==
    Outcome(0, "", "",
            [x \in DOMAIN fs \ {names[i] : i \in 1..Len(names)} |-> fs[x]],
            << >>)

\* find dir -type f: the names of the files, one on a line
RECURSIVE Find(_)
Find(files) ==
    IF files = {} THEN ""
    ELSE LET f == CHOOSE x \in files : TRUE
         IN  f \o "\n" \o Find(files \ {f})

\* 2>&1 at the end of a line: what went to stderr is in stdout
Redirected(line, r) ==
    IF line.merged THEN [r EXCEPT !.out = r.out \o r.err, !.err = ""] ELSE r

\* sh -c cmd in a running container
Sh(image, fs, cmd) ==
    CASE cmd.op = "test" -> Test(fs, Named(cmd), cmd.yes, cmd.no)
      [] cmd.op = "cat" -> Cat(fs, Named(cmd))
      [] cmd.op = "rm" -> Rm(fs, Named(cmd))
      [] cmd.op = "find" -> Outcome(0, Find(DOMAIN fs), "", fs, << >>)
      [] cmd.op = "run" ->
            Redirected(cmd.line, RunStages(image, fs, cmd.line, 1, NoFile))

TestCmd(file, quoted, yes, no) ==
    [op |-> "test", file |-> file, quoted |-> quoted, yes |-> yes, no |-> no]

CatCmd(file) == [op |-> "cat", file |-> file, quoted |-> FALSE]

RunCmd(line) == [op |-> "run", line |-> line]

(***************************************************************************)
(* DockerEnvironment.  The world w = [envs, conts, made] holds the live    *)
(* objects (envs[e] = [session_id, language, active, container, files]),   *)
(* the containers the daemon holds (conts[c] = [name, image, status, fs];  *)
(* a removed container is no longer in conts) and how many of each were    *)
(* ever made.  A method returns the world afterwards and its value res.    *)
(***************************************************************************)
\* the container attribute of an environment that was never started
NoContainer == 0

\* DockerEnvironment.__init__
NewEnv(session_id, language) ==
    [session_id |-> session_id, language |-> language, active |-> FALSE,
     container |-> NoContainer, files |-> {}]

\* the daemon refuses a second container of the same name: the name is
\* code-env-<session_id>
NameInUse(conts, name) == \E c \in DOMAIN conts : conts[c].name = name

Running(w, e) ==
    /\ w.envs[e].container \in DOMAIN w.conts
    /\ w.conts[w.envs[e].container].status = "running"

\* _exec_command returns without having run the command
NotRun(w, err) ==
    [exit |-> 1, out |-> "", err |-> err, hang |-> FALSE, w |-> w,
     trace |-> << >>, primary |-> [none |-> TRUE], retried |-> FALSE]

\* what the first exec_run answered, as lines 323-333 decode it
Primary(r) == [exit_code |-> r.exit, stdout |-> r.out, stderr |-> r.err]

\* a capture that keeps of the status only whether it is 0
CapturedAsFailure(w, c, r) ==
    [exit |-> IF r.exit = 0 THEN 0 ELSE 1, out |-> r.out, err |-> r.err,
     hang |-> r.hang, w |-> [w EXCEPT !.conts[c].fs = r.fs], trace |-> r.trace,
     primary |-> Primary(r), retried |-> FALSE]

\* the command ran as r says, and printed something or failed
Captured(w, c, r) ==
    [exit |-> r.exit, out |-> r.out, err |-> r.err, hang |-> r.hang,
     w |-> [w EXCEPT !.conts[c].fs = r.fs], trace |-> r.trace,
     primary |-> Primary(r), retried |-> FALSE]

\* the command printed nothing and exited 0, and was run again as
\* cmd > /tmp/output.txt 2>&1 && cat /tmp/output.txt, which did alt
Recaptured(w, c, r, alt) ==
    [exit |-> r.exit,
     out |-> IF ~alt.hang /\ alt.exit = 0 /\ alt.out \o alt.err # ""
             THEN alt.out \o alt.err ELSE r.out,
     err |-> r.err, hang |-> alt.hang,
     w |-> [w EXCEPT !.conts[c].fs = alt.fs], trace |-> r.trace \o alt.trace,
     primary |-> Primary(r), retried |-> TRUE]

\* line 341: not stdout and not stderr and exit_code == 0
Retried(r) == ~r.hang /\ r.out = "" /\ r.err = "" /\ r.exit = 0

\* the second exec_run raised: lines 360-363 answer for the whole method
RetryRaised(w, c, r) ==
    [exit |-> 1, out |-> "", err |-> "Command execution failed",
     hang |-> FALSE, w |-> [w EXCEPT !.conts[c].fs = r.fs], trace |-> r.trace,
     primary |-> Primary(r), retried |-> TRUE]

\* exec_run answered r
Answered(w, c, cmd, r, altRaises) ==
    IF Retried(r)
    THEN IF altRaises THEN RetryRaised(w, c, r)
         ELSE Recaptured(w, c, r, Sh(w.conts[c].image, r.fs, cmd))
    ELSE Captured(w, c, r)

\* _exec_command; raises: the first exec_run raises, altRaises: the second
ExecCommand(w, e, cmd, raises, altRaises) ==
    IF ~w.envs[e].active
    THEN NotRun(w, "Container not active")
    ELSE IF raises \/ ~Running(w, e)
    THEN NotRun(w, "Command execution failed")
    ELSE Answered(w, w.envs[e].container, cmd,
                  Sh(w.conts[w.envs[e].container].image,
                     w.conts[w.envs[e].container].fs, cmd),
                  altRaises)

\* a start that asks the daemon for a container even when the environment
\* is active
StartAgain(w, e, runRaises) ==
    LET env == w.envs[e]
        cid == w.made.conts + 1
    IN  IF env.language \notin LANGUAGE_IMAGES
        THEN [w |-> w,
              res |-> [success |-> FALSE,
                       error |-> "Unsupported language: " \o env.language]]
        ELSE IF runRaises \/ NameInUse(w.conts, env.session_id)
        THEN [w |-> w,
              res |-> [success |-> FALSE, error |-> "Failed to start container"]]
        ELSE [w |-> [envs |-> [w.envs EXCEPT ![e].active = TRUE,
                                             ![e].container = cid],
                     conts |-> [c \in DOMAIN w.conts \cup {cid} |->
                                  IF c = cid
                                  THEN [name |-> env.session_id,
                                        image |-> env.language,
                                        status |-> "running", fs |-> << >>]
                                  ELSE w.conts[c]],
                     made |-> [w.made EXCEPT !.conts = cid]],
              res |-> [success |-> TRUE, container_id |-> cid,
                       message |-> "Container started successfully"]]

\* start; runRaises: client.containers.run raises
Start(w, e, runRaises) ==
    LET env == w.envs[e]
        cid == w.made.conts + 1
    IN  IF env.active
        THEN [w |-> w,
              res |-> [success |-> TRUE, message |-> "Container already running"]]
        ELSE IF env.language \notin LANGUAGE_IMAGES
        THEN [w |-> w,
              res |-> [success |-> FALSE,
                       error |-> "Unsupported language: " \o env.language]]
        ELSE IF runRaises \/ NameInUse(w.conts, env.session_id)
        THEN [w |-> w,
              res |-> [success |-> FALSE, error |-> "Failed to start container"]]
        ELSE [w |-> [envs |-> [w.envs EXCEPT ![e].active = TRUE,
                                             ![e].container = cid],
                     conts |-> [c \in DOMAIN w.conts \cup {cid} |->
                                  IF c = cid
                                  THEN [name |-> env.session_id,
                                        image |-> env.language,
                                        status |-> "running", fs |-> << >>]
                                  ELSE w.conts[c]],
                     made |-> [w.made EXCEPT !.conts = cid]],
              res |-> [success |-> TRUE, container_id |-> cid,
                       message |-> "Container started successfully"]]

\* stop; fault: "ok", or which of container.stop / container.remove raises
Stop(w, e, cleanup, fault) ==
    LET env == w.envs[e]
        c == env.container
        failed == [success |-> FALSE, error |-> "Failed to stop container"]
    IN  IF ~env.active
        THEN [w |-> w,
              res |-> [success |-> TRUE, message |-> "Container already stopped"]]
        ELSE IF fault = "stop_raises" \/ c \notin DOMAIN w.conts
        THEN [w |-> w, res |-> failed]
        ELSE IF cleanup /\ fault = "remove_raises"
        THEN [w |-> [w EXCEPT !.conts[c].status = "exited"], res |-> failed]
        ELSE [w |-> [w EXCEPT
                       !.envs[e].active = FALSE,
                       !.conts = IF cleanup
                                 THEN [x \in DOMAIN w.conts \ {c} |-> w.conts[x]]
                                 ELSE [w.conts EXCEPT ![c].status = "exited"]],
              res |-> [success |-> TRUE,
                       message |-> "Container stopped successfully"]]

\* What the daemon does to one method call: run (containers.run raises),
\* put ("ok"; "false": put_archive returns False; "raise"; "lost": it returns
\* True and the file is not there), x1, x2 (the first and the second
\* exec_run of the method raise)
Fault(run, put, x1, x2) == [run |-> run, put |-> put, x1 |-> x1, x2 |-> x2]

\* a daemon that may fail, and one that never does:
\* the outcomes of containers.run, put_archive, exec_run and stop
AnyFault ==
    [run |-> BOOLEAN, put |-> {"ok", "false", "raise", "lost"}, x |-> BOOLEAN,
     stop |-> {"ok", "stop_raises", "remove_raises"}]

NoFault == [run |-> {FALSE}, put |-> {"ok"}, x |-> {FALSE}, stop |-> {"ok"}]

\* line 429: "not found" in stdout
WriteRejected(stdout) == stdout = "not found"

\* write_file after the presence check printed what check says
Verified(e, filename, content, check) ==
    IF WriteRejected(check.out)
    THEN [w |-> check.w, check |-> check.out,
          res |-> [success |-> FALSE, error |-> "File verification failed"]]
    ELSE [w |-> [check.w EXCEPT !.envs[e].files = @ \cup {filename}],
          check |-> check.out,
          res |-> [success |-> TRUE, filename |-> filename,
                   size |-> Len(content), message |-> "File created successfully"]]

\* write_file in the world w1, once the environment was started if need be
PutArchive(w1, e, filename, content, f) ==
    IF w1.envs[e].container \notin DOMAIN w1.conts \/ f.put = "raise"
    THEN [w |-> w1, check |-> "unchecked",
          res |-> [success |-> FALSE, error |-> "Failed to write file"]]
    ELSE IF f.put = "false"
    THEN [w |-> w1, check |-> "unchecked",
          res |-> [success |-> FALSE,
                   error |-> "Failed to copy file to container"]]
    ELSE Verified(e, filename, content,
                  ExecCommand(IF f.put = "ok"
                              THEN [w1 EXCEPT !.conts[w1.envs[e].container].fs =
                                                 Put(@, filename, content)]
                              ELSE w1,
                              e, TestCmd(filename, TRUE, "success", "not found"),
                              f.x1, FALSE))

\* write_file; check is what the presence check printed ("unchecked" when
\* the method returned before it)
WriteFile(w, e, filename, content, f) ==
    PutArchive(IF w.envs[e].active THEN w ELSE Start(w, e, f.run).w,
               e, filename, content, f)

\* read_file after cat
Read(filename, cat) ==
    IF cat.exit # 0
    THEN [w |-> cat.w, res |-> [success |-> FALSE, error |-> "Failed to read file"]]
    ELSE [w |-> cat.w,
          res |-> [success |-> TRUE, filename |-> filename,
                   content |-> cat.out, size |-> Len(cat.out)]]

\* read_file after its existence check
ReadChecked(e, filename, f, exists) ==
    IF exists.out = "not_exists"
    THEN [w |-> exists.w, res |-> [success |-> FALSE, error |-> "File not found"]]
    ELSE Read(filename, ExecCommand(exists.w, e, CatCmd(filename), f.x2,
                                    FALSE))

\* read_file
ReadFile(w, e, filename, f) ==
    IF ~w.envs[e].active
    THEN [w |-> w, res |-> [success |-> FALSE, error |-> "Container not active"]]
    ELSE ReadChecked(e, filename, f,
                     ExecCommand(w, e,
                                 TestCmd(filename, FALSE, "exists", "not_exists"),
                                 f.x1, FALSE))

\* a delete_file that starts the environment when it is not active
DeleteFileStarting(w, e, filename, f) ==
    LET w1 == IF w.envs[e].active THEN w ELSE Start(w, e, f.run).w
        rm == ExecCommand(w1, e, [op |-> "rm", file |-> filename, quoted |-> FALSE],
                          f.x1, FALSE)
    IN  IF rm.exit # 0
        THEN [w |-> rm.w,
              res |-> [success |-> FALSE, error |-> "Failed to delete file"]]
        ELSE [w |-> [rm.w EXCEPT !.envs[e].files = @ \ {filename}],
              res |-> [success |-> TRUE, filename |-> filename,
                       message |-> "File deleted successfully"]]

\* delete_file
DeleteFile(w, e, filename, f) ==
    LET rm == ExecCommand(w, e, [op |-> "rm", file |-> filename, quoted |-> FALSE],
                          f.x1, FALSE)
    IN  IF ~w.envs[e].active
        THEN [w |-> w,
              res |-> [success |-> FALSE, error |-> "Container not active"]]
        ELSE IF rm.exit # 0
        THEN [w |-> rm.w,
              res |-> [success |-> FALSE, error |-> "Failed to delete file"]]
        ELSE [w |-> [rm.w EXCEPT !.envs[e].files = @ \ {filename}],
              res |-> [success |-> TRUE, filename |-> filename,
                       message |-> "File deleted successfully"]]

\* lines 552-558: the names on the lines of what find printed
Listed(stdout, names) == CHOOSE S \in SUBSET names : Find(S) = stdout

\* list_files; files holds the names in no order
ListFiles(w, e, f) ==
    LET find == ExecCommand(w, e, [op |-> "find"], f.x1, FALSE)
        c == w.envs[e].container
    IN  IF ~w.envs[e].active
        THEN [w |-> w,
              res |-> [success |-> FALSE, error |-> "Container not active"]]
        ELSE IF find.exit # 0
        THEN [w |-> find.w,
              res |-> [success |-> FALSE, error |-> "Failed to list files"]]
        ELSE [w |-> [find.w EXCEPT !.envs[e].files =
                                      @ \cup Listed(find.out, DOMAIN w.conts[c].fs)],
              res |-> [success |-> TRUE,
                       files |-> Listed(find.out, DOMAIN w.conts[c].fs),
                       count |-> Cardinality(Listed(find.out,
                                                    DOMAIN w.conts[c].fs))]]

\* a record that calls every execution a success
ExecutionAlwaysSucceeds(language, filename, r) ==
    [execution_id |-> "uuid4", language |-> language, filename |-> filename,
     stdout |-> r.out, stderr |-> r.err, exit_code |-> r.exit, success |-> TRUE]

\* the record execute_code returns once the program has run
ExecutionResult(language, filename, r) ==
    [execution_id |-> "uuid4", language |-> language, filename |-> filename,
     stdout |-> r.out, stderr |-> r.err, exit_code |-> r.exit,
     success |-> r.exit = 0]

\* a refusal that carries an execution id as well
ExecutionRefusedWithId(message) ==
    [execution_id |-> "uuid4", success |-> FALSE, error |-> message]

\* what execute_code returns when the file is missing or the language has
\* no command
ExecutionRefused(message) == [success |-> FALSE, error |-> message]

\* execute_code after the program ran
Executed(normalized_language, filename, run) ==
    [w |-> run.w, hang |-> run.hang, trace |-> run.trace,
     res |-> ExecutionResult(normalized_language, filename, run)]

\* lines 649-654 and 659-664: the text of the print statement found in
\* what cat printed
WithPrinted(run, cat) ==
    IF cat.exit = 0 /\ PrintStatement(cat.out) # ""
    THEN [run EXCEPT !.out = PrintStatement(cat.out), !.w = cat.w]
    ELSE [run EXCEPT !.w = cat.w]

\* an execute_code that leaves self.language as it set it
NotRestored(e, original_language, run) == run

\* line 668: self.language = original_language, reached once the program
\* has run
Restored(e, original_language, run) ==
    IF run.hang THEN run
    ELSE [run EXCEPT !.w.envs[e].language = original_language]

\* lines 644-665: a julia or dart program that printed nothing and exited 0
\* gets as stdout what its source says it prints
Extracted(e, original_language, normalized_language, filename, run) ==
    IF /\ ~run.hang /\ run.out = "" /\ run.exit = 0
       /\ normalized_language \in {"julia", "dart"}
    THEN Executed(normalized_language, filename,
                  Restored(e, original_language,
                           WithPrinted(run, ExecCommand(run.w, e,
                                                        CatCmd(filename),
                                                        FALSE, FALSE))))
    ELSE Executed(normalized_language, filename,
                  Restored(e, original_language, run))

\* lines 637-638: self.language = normalized_language for the run
Overwritten(w, e, normalized_language) ==
    [w EXCEPT !.envs[e].language = normalized_language]

\* execute_code after its existence check
ExecuteChecked(e, normalized_language, filename, f, exists) ==
    IF exists.out = "not_exists"
    THEN [w |-> exists.w, hang |-> FALSE, trace |-> << >>,
          res |-> ExecutionRefused("File not found")]
    ELSE IF normalized_language \notin EXECUTION_COMMANDS_KEYS
    THEN [w |-> exists.w, hang |-> FALSE, trace |-> << >>,
          res |-> ExecutionRefused("Unsupported language: "
                                   \o normalized_language)]
    ELSE Extracted(e, exists.w.envs[e].language, normalized_language, filename,
                   ExecCommand(Overwritten(exists.w, e, normalized_language), e,
                               RunCmd(EXECUTION_COMMANDS(normalized_language,
                                                         filename)),
                               f.x2, FALSE))

\* execute_code; raw is the language argument.  hang: the exec_run of the
\* program never returns; trace: the programs the call ran
ExecuteCode(w, e, raw, filename, f) ==
    ExecuteChecked(e, ExecuteCodeLanguage(raw), filename, f,
                   ExecCommand(IF w.envs[e].active THEN w
                               ELSE Start(w, e, f.run).w,
                               e,
                               TestCmd(filename, FALSE, "exists", "not_exists"),
                               f.x1, FALSE))

(***************************************************************************)
(* State.                                                                  *)
(***************************************************************************)
VARIABLES
    docker_environments,  \* the registry: session id -> DockerEnvironment
    envs,                 \* the DockerEnvironment objects that are referenced
    conts,                \* the containers the daemon holds
    made,                 \* how many objects, containers and uuids were made
    cwd,                  \* the working directory of the process
    pc,                   \* where each caller is in its call
    call,                 \* the call each caller is in: arguments and locals
    result                \* what the call returned

vars == <<docker_environments, envs, conts, made, cwd, pc, call, result>>

Procs == {"a"}

\* session ids: the ones callers pass, and the ones uuid4() makes
GivenSessions == { <<"caller", 1>> }
Uuid(n) == <<"uuid4", n>>
NoSession == <<"None", 0>>
SessionArgs == GivenSessions \cup {NoSession}

World == [envs |-> envs, conts |-> conts, made |-> made]

NoResult == [none |-> TRUE]

\* a caller that is in no call; raw is the language argument, log lists the methods the call invoked on
\* its environment, trace the programs it ran, write what write_file
\* returned and what its presence check printed, cleanup the argument of
\* stop, primary what the first exec_run of _exec_command answered,
\* original_dir the local of execute_shell, where the working directory at
\* each file write and subprocess of the call
IdleCall ==
    [op |-> "none", session_id |-> NoSession, language |-> "", code |-> "",
     env |-> 0, filename |-> "", log |-> << >>, trace |-> << >>,
     write |-> NoResult, check |-> "", command |-> << >>, raw |-> << >>,
     cleanup |-> FALSE, primary |-> NoResult, original_dir |-> "",
     where |-> << >>]

\* the directory the process is started in, and restricted_dir (line 609)
StartDir == "cortex_on"
RestrictedDir == "cortex_on/agents/code_files"

\* the state at import, with the callers ps
Started(ps) ==
    /\ docker_environments = << >>
    /\ envs = << >>
    /\ conts = << >>
    /\ made = [envs |-> 0, conts |-> 0, uuids |-> 0]
    /\ cwd = StartDir
    /\ pc = [p \in ps |-> "idle"]
    /\ call = [p \in ps |-> IdleCall]
    /\ result = [p \in ps |-> NoResult]

Init == Started(Procs)

\* an object nothing refers to any more is gone: the registry is the only
\* holder of a DockerEnvironment between two calls
Referenced(reg, w) ==
    [w EXCEPT !.envs = [e \in {reg[s] : s \in DOMAIN reg} |-> w.envs[e]]]

\* a registry that constructs an environment at every call
AlwaysCreateEnvironment(reg, w, session_id, language) ==
    LET e == w.made.envs + 1
    IN  [reg |-> [s \in DOMAIN reg \cup {session_id} |->
                    IF s = session_id THEN e ELSE reg[s]],
         w |-> [w EXCEPT
                  !.envs = [x \in DOMAIN w.envs \cup {e} |->
                              IF x = e THEN NewEnv(session_id, language)
                              ELSE w.envs[x]],
                  !.made.envs = e],
         env |-> e]

\* get_or_create_environment
GetOrCreateEnvironment(reg, w, session_id, language) ==
    IF session_id \in DOMAIN reg
    THEN [reg |-> reg, w |-> w, env |-> reg[session_id]]
    ELSE LET e == w.made.envs + 1
         IN  [reg |-> [s \in DOMAIN reg \cup {session_id} |->
                         IF s = session_id THEN e ELSE reg[s]],
              w |-> [w EXCEPT
                       !.envs = [x \in DOMAIN w.envs \cup {e} |->
                                   IF x = e THEN NewEnv(session_id, language)
                                   ELSE w.envs[x]],
                       !.made.envs = e],
              env |-> e]

\* whether a call with this session and language may construct an
\* environment, and whether it may start a container
MayConstruct(session_id, language) ==
    \/ session_id \notin DOMAIN docker_environments
    \/ /\ envs[docker_environments[session_id]].language # language
       /\ envs[docker_environments[session_id]].active

MayStart(session_id, language) ==
    \/ MayConstruct(session_id, language)
    \/ ~envs[docker_environments[session_id]].active

WithinBounds(session_id, language) ==
    /\ MayConstruct(session_id, language) => made.envs < MaxEnvs
    /\ MayStart(session_id, language) => made.conts < MaxConts

(***************************************************************************)
(* run_docker_container.                                                   *)
(***************************************************************************)
\* the call ends: its value is returned, or (hang) the exec_run of the
\* program never comes back
Land(p, reg, w, c, res, hang) ==
    /\ docker_environments' = reg
    /\ envs' = Referenced(reg, w).envs
    /\ conts' = w.conts
    /\ made' = w.made
    /\ cwd' = cwd
    /\ call' = [call EXCEPT ![p] = c]
    /\ pc' = [pc EXCEPT ![p] = IF hang THEN "hung" ELSE "done"]
    /\ result' = [result EXCEPT ![p] = IF hang THEN NoResult ELSE res]

\* a test that never sees the language change
LanguageChangeIgnored(env, normalized_language) == FALSE

\* line 824
LanguageChanged(env, normalized_language) ==
    env.language # normalized_language /\ env.active

\* lines 823-829: on a language change stop the environment, construct one
\* for the requested language and register it in its place
Recreate(reg, w, e, session_id, normalized_language, fault) ==
    IF LanguageChanged(w.envs[e], normalized_language)
    THEN LET stopped == Stop(w, e, TRUE, fault).w
             n == w.made.envs + 1
         IN  [reg |-> [reg EXCEPT ![session_id] = n],
              w |-> [stopped EXCEPT
                       !.envs = [x \in DOMAIN stopped.envs \cup {n} |->
                                   IF x = n
                                   THEN NewEnv(session_id, normalized_language)
                                   ELSE stopped.envs[x]],
                       !.made.envs = n],
              env |-> n, log |-> <<"stop">>]
    ELSE [reg |-> reg, w |-> w, env |-> e, log |-> << >>]

\* line 834: not start_result.get("success", False)
StartFailed(start_result) ==
    ~("success" \in DOMAIN start_result /\ start_result.success)

\* line 835
StartError(start_result) ==
    [error |-> IF "error" \in DOMAIN start_result THEN start_result.error
               ELSE "Failed to start Docker environment"]

\* a test that takes every write for a success
WriteNeverFailed(write_result) == FALSE

\* line 841: not write_result.get("success", False)
WriteFailed(write_result) ==
    ~("success" \in DOMAIN write_result /\ write_result.success)

\* line 842
WriteError(write_result) ==
    [error |-> IF "error" \in DOMAIN write_result THEN write_result.error
               ELSE "Failed to write code file"]

\* line 838
ProgramFile(normalized_language) == "program" \o ExtensionOf(normalized_language)

\* line 845: execute_code returned (or never does)
Run(p, reg, c, executed) ==
    Land(p, reg, executed.w,
         [c EXCEPT !.log = Append(@, "execute_code"), !.trace = executed.trace],
         executed.res, executed.hang)

\* the call once write_file returned
Wrote(c, written) ==
    [c EXCEPT !.log = Append(@, "write_file"),
              !.write = written.res, !.check = written.check]

\* lines 841-845: execute the program unless the write failed
Execute(p, reg, e, c, x2, x3, written) ==
    IF WriteFailed(written.res)
    THEN /\ ~x2 /\ ~x3
         /\ Land(p, reg, written.w, Wrote(c, written), WriteError(written.res),
                 FALSE)
    ELSE Run(p, reg, Wrote(c, written),
             ExecuteCode(written.w, e, <<c.language>>, c.filename,
                         Fault(FALSE, "ok", x2, x3)))

\* lines 837-845, on the environment e of the world w: write the program,
\* and execute it unless the write failed
WriteAndExecute(p, reg, w, e, c, code, put, x1, x2, x3) ==
    Execute(p, reg, e, [c EXCEPT !.filename = ProgramFile(c.language)], x2, x3,
            WriteFile(w, e, ProgramFile(c.language), code,
                      Fault(FALSE, put, x1, FALSE)))

\* lines 831-845, on the environment r.env: start it if it is not active,
\* give up if that fails
StartAndRun(p, r, c, code, run, put, x1, x2, x3) ==
    LET inactive == ~r.w.envs[r.env].active
        started == Start(r.w, r.env, run)
        c1 == [c EXCEPT !.env = r.env,
                        !.log = r.log \o IF inactive THEN <<"start">> ELSE << >>]
    IN  IF inactive /\ StartFailed(started.res)
        THEN /\ put = "ok" /\ ~x1 /\ ~x2 /\ ~x3
             /\ Land(p, r.reg, started.w, c1, StartError(started.res), FALSE)
        ELSE /\ inactive \/ ~run
             /\ WriteAndExecute(p, r.reg, IF inactive THEN started.w ELSE r.w,
                                r.env, c1, code, put, x1, x2, x3)

\* run_docker_container(raw, code, sid), called by p, over a daemon whose
\* outcomes are drawn from F
RunDockerContainer(p, raw, code, sid, F) ==
    LET session_id == IF sid = NoSession THEN Uuid(made.uuids + 1) ELSE sid
        normalized_language == NormalizeLanguage(raw)
        w0 == IF sid = NoSession
              THEN [World EXCEPT !.made.uuids = @ + 1] ELSE World
        g == GetOrCreateEnvironment(docker_environments, w0, session_id,
                                    normalized_language)
        c0 == [IdleCall EXCEPT !.op = "run_docker_container",
                               !.session_id = session_id,
                               !.language = normalized_language,
                               !.code = code, !.raw = raw]
    IN  /\ pc[p] = "idle"
        /\ sid = NoSession => made.uuids < MaxUuid
        /\ WithinBounds(session_id, normalized_language)
        /\ \E stop \in IF LanguageChanged(g.w.envs[g.env], normalized_language)
                       THEN F.stop ELSE {"ok"} :
           \E run \in F.run, put \in F.put, x1 \in F.x, x2 \in F.x, x3 \in F.x :
              StartAndRun(p, Recreate(g.reg, g.w, g.env, session_id,
                                      normalized_language, stop),
                          c0, code, run, put, x1, x2, x3)

\* the caller takes the returned value
Return(p) ==
    /\ pc[p] = "done"
    /\ pc' = [pc EXCEPT ![p] = "idle"]
    /\ call' = [call EXCEPT ![p] = IdleCall]
    /\ result' = [result EXCEPT ![p] = NoResult]
    /\ UNCHANGED <<docker_environments, envs, conts, made, cwd>>

(***************************************************************************)
(* The methods of a registered DockerEnvironment and cleanup_environments, *)
(* called directly (as test_docker.py does).  Each is one action.          *)
(***************************************************************************)
\* the record of a direct call of method op on the environment of session s
Direct(op, s, language, code, filename, trace) ==
    [IdleCall EXCEPT !.op = op, !.session_id = s, !.language = language,
                     !.code = code, !.env = docker_environments[s],
                     !.filename = filename, !.log = <<op>>, !.trace = trace]

\* the method may start a container only while the daemon's bound allows
CanStart(s) ==
    envs[docker_environments[s]].active \/ made.conts < MaxConts

Finish(p, c, res, w) ==
    /\ pc' = [pc EXCEPT ![p] = "done"]
    /\ call' = [call EXCEPT ![p] = c]
    /\ result' = [result EXCEPT ![p] = res]
    /\ envs' = w.envs
    /\ conts' = w.conts
    /\ made' = w.made
    /\ UNCHANGED <<docker_environments, cwd>>

EnvStart(p, s, runRaises) ==
    LET started == Start(World, docker_environments[s], runRaises)
    IN  /\ pc[p] = "idle"
        /\ s \in DOMAIN docker_environments
        /\ CanStart(s)
        /\ envs[docker_environments[s]].active => ~runRaises
        /\ Finish(p, Direct("start", s, "", "", "", << >>), started.res, started.w)

EnvStop(p, s, cleanup, fault) ==
    LET stopped == Stop(World, docker_environments[s], cleanup, fault)
    IN  /\ pc[p] = "idle"
        /\ s \in DOMAIN docker_environments
        /\ envs[docker_environments[s]].active \/ fault = "ok"
        /\ Finish(p, [Direct("stop", s, "", "", "", << >>)
                         EXCEPT !.cleanup = cleanup],
                  stopped.res, stopped.w)

EnvWriteFile(p, s, filename, content, f) ==
    LET written == WriteFile(World, docker_environments[s], filename, content, f)
    IN  /\ pc[p] = "idle"
        /\ s \in DOMAIN docker_environments
        /\ CanStart(s)
        /\ envs[docker_environments[s]].active => ~f.run
        /\ Finish(p, [Direct("write_file", s, "", content, filename, << >>)
                         EXCEPT !.write = written.res, !.check = written.check],
                  written.res, written.w)

EnvReadFile(p, s, filename, f) ==
    LET read == ReadFile(World, docker_environments[s], filename, f)
    IN  /\ pc[p] = "idle"
        /\ s \in DOMAIN docker_environments
        /\ Finish(p, Direct("read_file", s, "", "", filename, << >>),
                  read.res, read.w)

EnvDeleteFile(p, s, filename, f) ==
    LET deleted == DeleteFile(World, docker_environments[s], filename, f)
    IN  /\ pc[p] = "idle"
        /\ s \in DOMAIN docker_environments
        /\ CanStart(s)
        /\ envs[docker_environments[s]].active \/ ~f.x1
        /\ Finish(p, Direct("delete_file", s, "", "", filename, << >>),
                  deleted.res, deleted.w)

EnvListFiles(p, s, f) ==
    LET listed == ListFiles(World, docker_environments[s], f)
    IN  /\ pc[p] = "idle"
        /\ s \in DOMAIN docker_environments
        /\ envs[docker_environments[s]].active \/ ~f.x1
        /\ Finish(p, Direct("list_files", s, "", "", "", << >>),
                  listed.res, listed.w)

\* write_file(filename, content) and then read_file(filename), as
\* test_docker.py does; the value returned is read_file's
EnvWriteThenRead(p, s, filename, content) ==
    LET f == Fault(FALSE, "ok", FALSE, FALSE)
        written == WriteFile(World, docker_environments[s], filename, content, f)
        read == ReadFile(written.w, docker_environments[s], filename, f)
    IN  /\ pc[p] = "idle"
        /\ s \in DOMAIN docker_environments
        /\ CanStart(s)
        /\ Finish(p, [Direct("write_then_read", s, "", content, filename, << >>)
                         EXCEPT !.log = <<"write_file", "read_file">>,
                                !.write = written.res, !.check = written.check],
                  read.res, read.w)

EnvExecuteCode(p, s, raw, filename, f) ==
    LET executed == ExecuteCode(World, docker_environments[s], raw, filename, f)
        c == [Direct("execute_code", s, ExecuteCodeLanguage(raw), "", filename,
                     executed.trace) EXCEPT !.raw = raw]
    IN  /\ pc[p] = "idle"
        /\ s \in DOMAIN docker_environments
        /\ CanStart(s)
        /\ envs[docker_environments[s]].active => ~f.run
        /\ IF executed.hang
           THEN /\ pc' = [pc EXCEPT ![p] = "hung"]
                /\ call' = [call EXCEPT ![p] = c]
                /\ envs' = executed.w.envs
                /\ conts' = executed.w.conts
                /\ made' = executed.w.made
                /\ UNCHANGED <<docker_environments, cwd, result>>
           ELSE Finish(p, c, executed.res, executed.w)

\* a method returned res, or (hang) one of its exec_run never comes back
FinishOrHang(p, c, res, w, hang) ==
    IF hang
    THEN /\ pc' = [pc EXCEPT ![p] = "hung"]
         /\ call' = [call EXCEPT ![p] = c]
         /\ envs' = w.envs
         /\ conts' = w.conts
         /\ made' = w.made
         /\ UNCHANGED <<docker_environments, cwd, result>>
    ELSE Finish(p, c, res, w)

\* the commands execute_code and read_file hand to _exec_command
Commands ==
    { RunCmd(EXECUTION_COMMANDS("python", "program.py")), CatCmd("program.py"),
      TestCmd("program.py", FALSE, "exists", "not_exists") }

\* _exec_command(cmd) of a registered environment; the log lists the
\* exec_run calls it made for cmd
EnvExecCommand(p, s, cmd, raises, altRaises) ==
    LET r == ExecCommand(World, docker_environments[s], cmd, raises, altRaises)
    IN  /\ pc[p] = "idle"
        /\ s \in DOMAIN docker_environments
        /\ altRaises => r.retried
        /\ FinishOrHang(p, [Direct("_exec_command", s, "", "", "", r.trace)
                               EXCEPT !.primary = r.primary,
                                      !.log = IF r.primary = NoResult THEN << >>
                                              ELSE IF r.retried
                                              THEN <<"exec_run", "exec_run">>
                                              ELSE <<"exec_run">>],
                        [exit_code |-> r.exit, stdout |-> r.out, stderr |-> r.err],
                        r.w, r.hang)

\* env.stop(cleanup=True) on every registered environment, in turn
RECURSIVE StopAll(_, _, _)
StopAll(w, todo, faults) ==
    IF todo = {} THEN w
    ELSE LET s == CHOOSE t \in todo : TRUE
         IN  StopAll(Stop(w, docker_environments[s], TRUE, faults[s]).w,
                     todo \ {s}, faults)

\* cleanup_environments
CleanupEnvironments(p, faults) ==
    /\ pc[p] = "idle"
    /\ \A s \in DOMAIN docker_environments :
          envs[docker_environments[s]].active \/ faults[s] = "ok"
    /\ pc' = [pc EXCEPT ![p] = "done"]
    /\ call' = [call EXCEPT ![p] = [IdleCall EXCEPT !.op = "cleanup_environments"]]
    /\ result' = [result EXCEPT ![p] = [returned |-> "None"]]
    /\ LET w == StopAll(World, DOMAIN docker_environments, faults)
       IN  /\ envs' = Referenced(<< >>, w).envs
           /\ conts' = w.conts
           /\ made' = w.made
    /\ docker_environments' = << >>
    /\ cwd' = cwd

(***************************************************************************)
(* The three places that normalise a language name, applied to one raw     *)
(* string, and then to the name they returned.                             *)
(***************************************************************************)
\* what run_docker_container, execute_code and
\* code_formatter.normalize_language make of a language argument
Normalized(raw) ==
    [run_docker_container |-> NormalizeLanguage(raw),
     execute_code |-> ExecuteCodeLanguage(raw),
     code_formatter |-> normalize_language(raw)]

NormalizeLanguages(p, raw) ==
    /\ pc[p] = "idle"
    /\ pc' = [pc EXCEPT ![p] = "done"]
    /\ call' = [call EXCEPT ![p] =
                  [IdleCall EXCEPT !.op = "normalize_language", !.raw = raw]]
    /\ result' = [result EXCEPT ![p] =
                    [first |-> Normalized(raw),
                     again |-> [run_docker_container |->
                                   Normalized(<<NormalizeLanguage(raw)>>),
                                execute_code |->
                                   Normalized(<<ExecuteCodeLanguage(raw)>>),
                                code_formatter |->
                                   Normalized(<<normalize_language(raw)>>)]]]
    /\ UNCHANGED <<docker_environments, envs, conts, made, cwd>>

(***************************************************************************)
(* execute_shell of code_agent.py: the commands it runs with subprocess.   *)
(* A command is the sequence of its words.  The host's programs are the    *)
(* environment: each subprocess.run ends with status 0, with another       *)
(* status, or is killed at its timeout.                                    *)
(***************************************************************************)
ALLOWED_COMMANDS ==
    {"ls", "dir", "cat", "echo", "mkdir", "touch", "rm", "cp", "mv",
     "python", "python3", "pip", "node", "npm", "java", "javac",
     "gcc", "g++", "clang", "clang++", "go", "rustc", "cargo",
     "ruby", "perl", "php", "dotnet", "csc", "swift",
     "tsc", "npx", "ts-node",
     "make", "cmake", "gradle", "maven", "mvn",
     "sh", "bash", "zsh", "powershell", "pwsh"}

\* line 719
CompileCommands == {"gcc", "g++", "clang", "clang++", "javac", "rustc"}

\* line 714: any(ext in arg for ext in LANGUAGE_EXTENSIONS.values())
NamesSource(arg) ==
    arg \in {"main.cpp", "main.c", "main.rs", "Main.java", "main.py"}

\* the first word of detect_language_from_extension(filename)[1]
ExecutableCmd(filename) ==
    CASE filename = "main.cpp" -> "g++"
      [] filename = "main.c" -> "gcc"
      [] filename = "main.rs" -> "rustc"
      [] filename = "Main.java" -> "java"
      [] filename = "main.py" -> "python"
      [] OTHER -> "echo"

SubprocessOutcomes == {"zero", "nonzero", "timeout"}

\* one subprocess.run(args, shell=True, timeout=60): of a list, the shell
\* runs the first word
Ran(kind, tool, outcome) ==
    [kind |-> kind, tool |-> tool, exit |-> IF outcome = "zero" THEN 0 ELSE 1,
     timeout |-> outcome = "timeout"]

TimedOut == [returned |-> "Command execution timed out after 60 seconds"]

\* lines 719-759: compile, and run the program if the compiler exits 0
CompileThenRun(command, o1, o2) ==
    LET compiled == Ran("compile", command[1], o1)
        ran == Ran("binary", ExecutableCmd(command[2]), o2)
    IN  IF o1 = "timeout"
        THEN [trace |-> <<compiled>>, res |-> TimedOut]
        ELSE IF compiled.exit # 0
        THEN [trace |-> <<compiled>>, res |-> [returned |-> "Compilation failed"]]
        ELSE IF o2 = "timeout"
        THEN [trace |-> <<compiled, ran>>, res |-> TimedOut]
        ELSE [trace |-> <<compiled, ran>>,
              res |-> [returned |->
                         IF ran.exit = 0 THEN "Compilation output, Execution output"
                         ELSE "Compilation output, Execution output, Error"]]

\* lines 762-785
RunDirectly(command, o1) ==
    LET ran == Ran("direct", command[1], o1)
    IN  [trace |-> <<ran>>,
         res |-> IF o1 = "timeout" THEN TimedOut
                 ELSE [returned |-> IF ran.exit = 0 THEN "stdout"
                                    ELSE "Command failed with error code"]]

\* lines 623 and 650: echo with a redirection, cat with a here-document
WritesFile(command) ==
    \/ command[1] = "echo" /\ \E i \in 1..Len(command) : command[i] = ">"
    \/ command[1] = "cat" /\ \E i \in 1..Len(command) : command[i] = "<<"

\* line 599
BaseCommand(command) == IF command = << >> THEN "" ELSE command[1]

\* a check that lets every command with a first word through
PermittedUnlessEmpty(base_command) == base_command # ""

\* line 613, negated
Permitted(base_command) == base_command \in ALLOWED_COMMANDS

NotAllowed == [returned |-> "Error: Command is not allowed"]

\* lines 613-795: what the call does and returns, the subprocesses ending
\* as o1 and o2 say
ShellOutcome(command, o1, o2) ==
    IF ~Permitted(BaseCommand(command))
    THEN [trace |-> << >>, res |-> NotAllowed]
    ELSE IF WritesFile(command)
    THEN [trace |-> << >>, res |-> [returned |-> "Successfully wrote"]]
    ELSE IF /\ Len(command) > 1
            /\ NamesSource(command[2])
            /\ BaseCommand(command) \in CompileCommands
    THEN CompileThenRun(command, o1, o2)
    ELSE RunDirectly(command, o1)

\* execute_shell(command) without a websocket: no send_stream_update
\* suspends, and the finally clause has restored the working directory
\* when the call returns
ExecuteShell(p, command, o1, o2) ==
    LET done == ShellOutcome(command, o1, o2)
    IN  /\ pc[p] = "idle"
        /\ Len(done.trace) < 2 => o2 = "zero"
        /\ Len(done.trace) < 1 => o1 = "zero"
        /\ pc' = [pc EXCEPT ![p] = "done"]
        /\ call' = [call EXCEPT ![p] =
                      [IdleCall EXCEPT !.op = "execute_shell", !.command = command,
                                       !.trace = done.trace]]
        /\ result' = [result EXCEPT ![p] = done.res]
        /\ UNCHANGED <<docker_environments, envs, conts, made, cwd>>

(***************************************************************************)
(* execute_shell with a websocket: send_stream_update awaits               *)
(* websocket.send_text, where the event loop runs the other tasks.  A call *)
(* is the steps between its sends.                                         *)
(***************************************************************************)
\* lines 597-603: up to the send of the operation message
ShellAnnounce(p, command) ==
    /\ pc[p] = "idle"
    /\ pc' = [pc EXCEPT ![p] = "announced"]
    /\ call' = [call EXCEPT ![p] =
                  [IdleCall EXCEPT !.op = "execute_shell", !.command = command]]
    /\ UNCHANGED <<docker_environments, envs, conts, made, cwd, result>>

\* lines 605-625 (680 for a command that is run): the check, and for a
\* permitted command os.getcwd and os.chdir, up to the next send
ShellEnter(p) ==
    /\ pc[p] = "announced"
    /\ IF Permitted(BaseCommand(call[p].command))
       THEN /\ pc' = [pc EXCEPT ![p] = "entered"]
            /\ call' = [call EXCEPT ![p].original_dir = cwd]
            /\ cwd' = RestrictedDir
       ELSE /\ pc' = [pc EXCEPT ![p] = "refused"]
            /\ UNCHANGED <<call, cwd>>
    /\ UNCHANGED <<docker_environments, envs, conts, made, result>>

\* the working directory at each open(file_path, "w") and subprocess.run
\* of the step
WorkedIn(command, trace, dir) ==
    IF WritesFile(command) THEN <<dir>> ELSE [i \in 1..Len(trace) |-> dir]

\* lines 627-790: the file is written or the subprocesses run, one after
\* the other, up to the send of the message that says how it went
ShellWork(p, o1, o2) ==
    LET done == ShellOutcome(call[p].command, o1, o2)
    IN  /\ pc[p] = "entered"
        /\ Len(done.trace) < 2 => o2 = "zero"
        /\ Len(done.trace) < 1 => o1 = "zero"
        /\ pc' = [pc EXCEPT ![p] = "worked"]
        /\ call' = [call EXCEPT ![p].trace = done.trace,
                                ![p].where = WorkedIn(call[p].command,
                                                      done.trace, cwd),
                                ![p].write = done.res]
        /\ UNCHANGED <<docker_environments, envs, conts, made, cwd, result>>

\* the return after the last send: line 615 for a refused command,
\* otherwise through the finally clause, lines 797-799
ShellLeave(p) ==
    /\ pc[p] \in {"refused", "worked"}
    /\ pc' = [pc EXCEPT ![p] = "done"]
    /\ IF pc[p] = "refused"
       THEN /\ result' = [result EXCEPT ![p] = NotAllowed]
            /\ cwd' = cwd
       ELSE /\ result' = [result EXCEPT ![p] = call[p].write]
            /\ cwd' = call[p].original_dir
    /\ UNCHANGED <<docker_environments, envs, conts, made, call>>

(***************************************************************************)
(* run_docker_container as a task of an event loop that has other tasks.   *)
(* A call is the steps between its awaits (lines 826, 833, 839 and 845).   *)
(***************************************************************************)
\* an executor whose awaits hand the event loop to the other tasks
AwaitsSuspend == TRUE

\* whether an await of run_docker_container suspends the call: stop, start,
\* write_file and execute_code are coroutines that contain no await of
\* their own but of each other and make blocking calls of the Docker SDK
\* (containers.run, put_archive, exec_run, stop, remove), so none does
AwaitSuspends == FALSE

\* the event loop runs p: no other task is inside a call that has not
\* suspended (a call that hangs in exec_run keeps the loop for ever)
MayRun(p) ==
    \A q \in DOMAIN pc \ {p} : pc[q] \in {"idle", "done"} \/ AwaitSuspends

\* the call goes on to its next await
Proceed(p, reg, w, c, at) ==
    /\ docker_environments' = reg
    /\ envs' = Referenced(reg, w).envs
    /\ conts' = w.conts
    /\ made' = w.made
    /\ call' = [call EXCEPT ![p] = c]
    /\ pc' = [pc EXCEPT ![p] = at]
    /\ UNCHANGED <<cwd, result>>

\* lines 776-829: the environment of the session, replaced when it is
\* active in another language
TaskGet(p, raw, code, sid) ==
    LET session_id == IF sid = NoSession THEN Uuid(made.uuids + 1) ELSE sid
        normalized_language == NormalizeLanguage(raw)
        g == GetOrCreateEnvironment(docker_environments,
                                    IF sid = NoSession
                                    THEN [World EXCEPT !.made.uuids = @ + 1]
                                    ELSE World,
                                    session_id, normalized_language)
        r == Recreate(g.reg, g.w, g.env, session_id, normalized_language, "ok")
    IN  /\ pc[p] = "idle"
        /\ MayRun(p)
        /\ sid = NoSession => made.uuids < MaxUuid
        /\ WithinBounds(session_id, normalized_language)
        /\ Proceed(p, r.reg, r.w,
                   [IdleCall EXCEPT !.op = "run_docker_container",
                                    !.session_id = session_id,
                                    !.language = normalized_language,
                                    !.code = code, !.raw = raw,
                                    !.env = r.env, !.log = r.log],
                   "got")

\* lines 831-835
TaskStart(p, run) ==
    LET e == call[p].env
        started == Start(World, e, run)
    IN  /\ pc[p] = "got"
        /\ MayRun(p)
        /\ envs[e].active => ~run
        /\ IF envs[e].active
           THEN Proceed(p, docker_environments, World, call[p], "started")
           ELSE IF StartFailed(started.res)
           THEN Land(p, docker_environments, started.w,
                     [call[p] EXCEPT !.log = Append(@, "start")],
                     StartError(started.res), FALSE)
           ELSE Proceed(p, docker_environments, started.w,
                        [call[p] EXCEPT !.log = Append(@, "start")], "started")

\* lines 837-842
TaskWrite(p) ==
    LET filename == ProgramFile(call[p].language)
        written == WriteFile(World, call[p].env, filename, call[p].code,
                             Fault(FALSE, "ok", FALSE, FALSE))
    IN  /\ pc[p] = "started"
        /\ MayRun(p)
        /\ IF WriteFailed(written.res)
           THEN Land(p, docker_environments, written.w,
                     Wrote([call[p] EXCEPT !.filename = filename], written),
                     WriteError(written.res), FALSE)
           ELSE Proceed(p, docker_environments, written.w,
                        Wrote([call[p] EXCEPT !.filename = filename], written),
                        "wrote")

\* line 845
TaskExecute(p) ==
    /\ pc[p] = "wrote"
    /\ MayRun(p)
    /\ Run(p, docker_environments, call[p],
           ExecuteCode(World, call[p].env, <<call[p].language>>,
                       call[p].filename, Fault(FALSE, "ok", FALSE, FALSE)))

\* the task that awaited the call goes on with what it returned
TaskReturn(p) == MayRun(p) /\ Return(p)
(***************************************************************************)
(* Specifications.  Calls come one at a time: no method of                 *)
(* docker_executor.py suspends between its first and its last line (every  *)
(* await in it is of a coroutine that only makes blocking calls), so one   *)
(* caller is enough for the calls of one event loop.                       *)
(***************************************************************************)
\* raw language arguments
RawLanguages == { <<"python">>, <<" ", "PY", " ">>, <<"c++">>, <<"bogus-lang">> }

\* the programs submitted over a daemon that may fail
Programs == {"hello", "bad", "loop"}

\* run_docker_container, cleanup_environments, and stop and execute_code of
\* a registered environment, over a daemon that may fail
Next ==
    \/ \E raw \in RawLanguages, code \in Programs, sid \in GivenSessions :
          RunDockerContainer("a", raw, code, sid, AnyFault)
    \/ \E faults \in [DOMAIN docker_environments -> AnyFault.stop] :
          CleanupEnvironments("a", faults)
    \/ \E s \in DOMAIN docker_environments, cleanup \in BOOLEAN,
          fault \in AnyFault.stop :
          EnvStop("a", s, cleanup, fault)
    \/ \E s \in DOMAIN docker_environments, raw \in RawLanguages,
          run \in AnyFault.run, x1 \in AnyFault.x, x2 \in AnyFault.x :
          EnvExecuteCode("a", s, raw, "program.py", Fault(run, "ok", x1, x2))
    \/ Return("a")

Spec == Init /\ [][Next]_vars

\* run_docker_container with and without a session id, and
\* cleanup_environments, over a daemon that may fail
NextSessions ==
    \/ \E raw \in RawLanguages \ { <<"bogus-lang">> }, sid \in SessionArgs :
          RunDockerContainer("a", raw, "hello", sid, AnyFault)
    \/ \E faults \in [DOMAIN docker_environments -> AnyFault.stop] :
          CleanupEnvironments("a", faults)
    \/ Return("a")

SpecSessions == Init /\ [][NextSessions]_vars

\* the files the direct calls name
DirectFiles == {"program.py", "my notes.txt"}

\* the methods of one environment over a daemon that never fails
NextReliable ==
    \/ \E code \in Codes :
          RunDockerContainer("a", <<"python">>, code, <<"caller", 1>>, NoFault)
    \/ \E s \in DOMAIN docker_environments : EnvStart("a", s, FALSE)
    \/ \E s \in DOMAIN docker_environments, cleanup \in BOOLEAN :
          EnvStop("a", s, cleanup, "ok")
    \/ \E s \in DOMAIN docker_environments, filename \in DirectFiles,
          content \in Codes :
          EnvWriteFile("a", s, filename, content, Fault(FALSE, "ok", FALSE, FALSE))
    \/ \E s \in DOMAIN docker_environments, filename \in DirectFiles :
          EnvReadFile("a", s, filename, Fault(FALSE, "ok", FALSE, FALSE))
    \/ \E s \in DOMAIN docker_environments, filename \in DirectFiles,
          content \in Codes :
          EnvWriteThenRead("a", s, filename, content)
    \/ Return("a")

SpecReliable == Init /\ [][NextReliable]_vars

\* the methods of one environment, _exec_command among them, over a daemon
\* that starts and stops containers and whose exec_run may raise
NextMethods ==
    \/ \E code \in Codes :
          RunDockerContainer("a", <<"python">>, code, <<"caller", 1>>, NoFault)
    \/ \E s \in DOMAIN docker_environments, cleanup \in BOOLEAN :
          EnvStop("a", s, cleanup, "ok")
    \/ \E s \in DOMAIN docker_environments, cmd \in Commands,
          raises \in BOOLEAN, altRaises \in BOOLEAN :
          EnvExecCommand("a", s, cmd, raises, altRaises)
    \/ \E s \in DOMAIN docker_environments, raw \in RawLanguages,
          filename \in DirectFiles, x1 \in BOOLEAN, x2 \in BOOLEAN :
          EnvExecuteCode("a", s, raw, filename, Fault(FALSE, "ok", x1, x2))
    \/ \E s \in DOMAIN docker_environments, filename \in DirectFiles,
          content \in {"hello", "bad"} :
          EnvWriteFile("a", s, filename, content, Fault(FALSE, "ok", FALSE, FALSE))
    \/ \E s \in DOMAIN docker_environments, filename \in DirectFiles,
          x1 \in BOOLEAN :
          EnvReadFile("a", s, filename, Fault(FALSE, "ok", x1, FALSE))
    \/ \E s \in DOMAIN docker_environments, filename \in DirectFiles,
          x1 \in BOOLEAN :
          EnvDeleteFile("a", s, filename, Fault(FALSE, "ok", x1, FALSE))
    \/ \E s \in DOMAIN docker_environments, x1 \in BOOLEAN :
          EnvListFiles("a", s, Fault(FALSE, "ok", x1, FALSE))
    \/ Return("a")

SpecMethods == Init /\ [][NextMethods]_vars

\* the languages whose command line compiles, and java
CompiledLanguages == { <<"cpp">>, <<"rust">>, <<"kotlin">>, <<"java">> }

ShellCommands ==
    { <<"g++", "main.cpp", "-o", "main">>, <<"gcc", "main.c">>,
      <<"clang", "main.c">>, <<"rustc", "main.rs">>, <<"javac", "Main.java">>,
      <<"g++", "-o", "main", "main.cpp">>, <<"python", "main.py">>,
      <<"echo", "hi", ">", "out.txt">>, <<"curl", "example.com">>, << >> }

\* compiling and running, in a container and with execute_shell, over a
\* daemon that never fails
NextCompile ==
    \/ \E raw \in CompiledLanguages, code \in Codes :
          RunDockerContainer("a", raw, code, <<"caller", 1>>, NoFault)
    \/ \E command \in ShellCommands, o1 \in SubprocessOutcomes,
          o2 \in SubprocessOutcomes :
          ExecuteShell("a", command, o1, o2)
    \/ Return("a")

SpecCompile == Init /\ [][NextCompile]_vars


\* every language with an image, c, and an alias
EveryLanguage == { <<l>> : l \in LANGUAGE_IMAGES \cup {"c", "python3"} }

\* the programs submitted in every language
Sources == {"hello", "streams", "class Hello", "uncalled"}

\* run_docker_container in every language, and cleanup_environments, over
\* a daemon that never fails
NextLanguages ==
    \/ \E raw \in EveryLanguage, code \in Sources :
          RunDockerContainer("a", raw, code, <<"caller", 1>>, NoFault)
    \/ \E faults \in [DOMAIN docker_environments -> NoFault.stop] :
          CleanupEnvironments("a", faults)
    \/ Return("a")

SpecLanguages == Init /\ [][NextLanguages]_vars

\* language names: the aliases, the names with an image, c, a name no
\* table knows, and some in upper case
LanguageNames ==
    DOMAIN language_mapping \cup DOMAIN language_aliases \cup LANGUAGE_IMAGES
    \cup {"bogus-lang", "PY", "Python", "PYTHON3", "C++", "CPP"}

\* a name as a caller may write it, with blanks around it
Spellings ==
    UNION { { <<n>>, <<" ", n>>, <<n, " ">>, <<" ", n, " ", " ">> } :
            n \in LanguageNames }

\* the normalisation of language names
NextAliases ==
    \/ \E raw \in Spellings : NormalizeLanguages("a", raw)
    \/ Return("a")

SpecAliases == Init /\ [][NextAliases]_vars

\* the tasks of one event loop
Tasks == {"a", "b"}

\* a command that runs a program, one that writes a file, one that
\* compiles and runs, one that is not allowed, and the empty command
TaskCommands ==
    { <<"python", "main.py">>, <<"echo", "hi", ">", "out.txt">>,
      <<"g++", "main.cpp", "-o", "main">>, <<"curl", "example.com">>, << >> }

\* execute_shell calls of two tasks, interleaved at their sends
NextShell ==
    \/ \E p \in Tasks, command \in TaskCommands : ShellAnnounce(p, command)
    \/ \E p \in Tasks : ShellEnter(p)
    \/ \E p \in Tasks, o1 \in SubprocessOutcomes, o2 \in SubprocessOutcomes :
          ShellWork(p, o1, o2)
    \/ \E p \in Tasks : ShellLeave(p)
    \/ \E p \in Tasks : Return(p)

SpecShell == Started(Tasks) /\ [][NextShell]_vars

\* the programs and the session ids of the tasks
TaskPrograms == {"hello", "bad", "exit42", "loop"}
TaskSessions == { <<"caller", 1>>, <<"caller", 2>> }

\* run_docker_container calls of two tasks for python programs
NextTasks ==
    \/ \E p \in Tasks, code \in TaskPrograms, sid \in TaskSessions :
          TaskGet(p, <<"python">>, code, sid)
    \/ \E p \in Tasks, run \in BOOLEAN : TaskStart(p, run)
    \/ \E p \in Tasks : TaskWrite(p)
    \/ \E p \in Tasks : TaskExecute(p)
    \/ \E p \in Tasks : TaskReturn(p)

SpecTasks == Started(Tasks) /\ [][NextTasks]_vars
(***************************************************************************)
(* The claims.                                                             *)
(***************************************************************************)
\* C1: every value run_docker_container or execute_code returns carries
\* exactly one of execution_id and error, and one that carries execution_id
\* is a whole ExecutionResult
C1_ResultShape ==
    \A p \in Procs :
        (pc[p] = "done" /\ call[p].op \in {"run_docker_container", "execute_code"})
        => /\ ("execution_id" \in DOMAIN result[p]) # ("error" \in DOMAIN result[p])
           /\ "execution_id" \in DOMAIN result[p] =>
                 DOMAIN result[p] = {"execution_id", "language", "filename",
                                     "stdout", "stderr", "exit_code", "success"}

\* a program ran and ended with a status other than 0
C1_Witness ==
    \E p \in Procs :
        /\ pc[p] = "done"
        /\ call[p].op = "run_docker_container"
        /\ "execution_id" \in DOMAIN result[p]
        /\ result[p].exit_code = 1
        /\ call[p].trace # << >>

C3_LanguageIdentity ==
    \A p \in Procs :
        ( /\ pc[p] \in {"done", "hung"}
          /\ call[p].op = "run_docker_container"
          /\ \E i \in 1..Len(call[p].log) : call[p].log[i] = "write_file" )
        => envs[call[p].env].language = call[p].language

\* C4: no call is left waiting for a program that never ends
C4_EveryCallReturns == \A p \in Procs : pc[p] # "hung"

\* C5: once a compiler has exited with a status other than 0, nothing more
\* of the command runs, and the call reports the failure
C5_CompileGate ==
    \A p \in Procs :
        ( /\ pc[p] \in {"done", "hung"}
          /\ call[p].op \in {"run_docker_container", "execute_shell"} )
        => \A i \in 1..Len(call[p].trace) :
              ( /\ call[p].trace[i].kind = "compile"
                /\ call[p].trace[i].exit # 0
                /\ ~call[p].trace[i].timeout )
              => /\ i = Len(call[p].trace)
                 /\ pc[p] = "done"
                 /\ IF call[p].op = "execute_shell"
                    THEN result[p] = [returned |-> "Compilation failed"]
                    ELSE /\ "execution_id" \in DOMAIN result[p]
                         /\ ~result[p].success
                         /\ result[p].exit_code # 0

\* g++ rejected the program of a run_docker_container call
C5_Witness ==
    \E p \in Procs :
        /\ pc[p] = "done"
        /\ call[p].op = "run_docker_container"
        /\ call[p].language = "cpp"
        /\ Len(call[p].trace) = 1
        /\ call[p].trace[1].kind = "compile"
        /\ call[p].trace[1].exit # 0
        /\ ~result[p].success

\* C6: an operation that leaves its environment inactive (the container
\* could not be started) returns an error and no ExecutionResult
C6_UnavailableIsError ==
    \A p \in Procs :
        ( /\ pc[p] = "done"
          /\ call[p].op \in {"run_docker_container", "execute_code"}
          /\ ~envs[call[p].env].active )
        => /\ "error" \in DOMAIN result[p]
           /\ "execution_id" \notin DOMAIN result[p]
           /\ "exit_code" \notin DOMAIN result[p]

\* C7: when write_file does not return success, run_docker_container
\* returns the write's error and does not invoke execute_code
C7_WriteFailureStops ==
    \A p \in Procs :
        ( /\ pc[p] \in {"done", "hung"}
          /\ call[p].op = "run_docker_container"
          /\ call[p].write # NoResult
          /\ ~("success" \in DOMAIN call[p].write /\ call[p].write.success) )
        => /\ pc[p] = "done"
           /\ result[p] = [error |-> call[p].write.error]
           /\ \A i \in 1..Len(call[p].log) : call[p].log[i] # "execute_code"
           /\ call[p].trace = << >>

\* the presence check of a run_docker_container call did not find the file
C7_Witness ==
    \E p \in Procs :
        /\ pc[p] = "done"
        /\ call[p].op = "run_docker_container"
        /\ call[p].check = "not found"
        /\ result[p] = [error |-> "File verification failed"]

\* C8: write_file returns success only when its presence check printed
\* that the file is there
C8_SuccessOnlyIfConfirmed ==
    \A p \in Procs :
        ( /\ pc[p] \in {"done", "hung"}
          /\ call[p].write # NoResult
          /\ "success" \in DOMAIN call[p].write
          /\ call[p].write.success )
        => call[p].check = "success"

\* C9: on an active environment, a write_file that succeeds and the
\* read_file of the same name that follows return the written content
C9_RoundTrip ==
    [][\A p \in Procs :
          ( /\ pc[p] = "idle"
            /\ call'[p].op = "write_then_read"
            /\ envs[docker_environments[call'[p].session_id]].active
            /\ call'[p].write.success )
          => /\ "content" \in DOMAIN result'[p]
             /\ result'[p].success
             /\ result'[p].content = call'[p].code]_vars

\* C10: a run_docker_container call for a language with no image returns
\* an error, registers no environment and starts no container
C10_UnsupportedCreatesNothing ==
    [][\A p \in Procs :
          ( /\ pc[p] = "idle"
            /\ call'[p].op = "run_docker_container"
            /\ call'[p].language \notin LANGUAGE_IMAGES )
          => /\ "error" \in DOMAIN result'[p]
             /\ DOMAIN docker_environments' \subseteq DOMAIN docker_environments
             /\ made'.conts = made.conts]_vars

C12_SuccessIffZero ==
    \A p \in Procs :
        (pc[p] = "done" /\ call[p].op \in {"run_docker_container", "execute_code"})
        => IF "exit_code" \in DOMAIN result[p]
           THEN result[p].success = (result[p].exit_code = 0)
           ELSE "success" \in DOMAIN result[p] => ~result[p].success

\* execute_code refused to run a file that is not there
C12_Witness ==
    \E p \in Procs :
        /\ pc[p] = "done"
        /\ call[p].op = "execute_code"
        /\ "exit_code" \notin DOMAIN result[p]
        /\ "success" \in DOMAIN result[p]
        /\ ~result[p].success

\* C13: of a program that ran to its end having written "out" to stdout and
\* "err" to stderr, the result's stdout is "out" and its stderr is "err"
C13_StreamSeparation ==
    \A p \in Procs :
        ( /\ pc[p] = "done"
          /\ call[p].op = "run_docker_container"
          /\ call[p].code = "streams"
          /\ "execution_id" \in DOMAIN result[p]
          /\ result[p].exit_code = 0 )
        => /\ result[p].stdout = "out"
           /\ result[p].stderr = "err"

\* C14: start() on an active environment returns success, starts no
\* container and changes neither the environment (active, container,
\* language, files) nor anything else
C14_StartIdempotent ==
    [][\A p \in Procs :
          ( /\ pc[p] = "idle"
            /\ call'[p].op = "start"
            /\ envs[call'[p].env].active )
          => /\ "success" \in DOMAIN result'[p]
             /\ result'[p].success
             /\ made' = made
             /\ conts' = conts
             /\ envs' = envs
             /\ docker_environments' = docker_environments]_vars

\* start() was called on an environment that was running
C14_Witness ==
    \E p \in Procs :
        /\ pc[p] = "done"
        /\ call[p].op = "start"
        /\ result[p] = [success |-> TRUE, message |-> "Container already running"]
        /\ envs[call[p].env].active
        /\ envs[call[p].env].files # {}

\* C15: within one run_docker_container call the environment is started
\* at most once, the file written at most once, and no program of the
\* command line runs more than once
C15_AtMostOnce ==
    \A p \in Procs :
        (pc[p] \in {"done", "hung"} /\ call[p].op = "run_docker_container")
        => /\ \A i, j \in 1..Len(call[p].log) :
                 call[p].log[i] = call[p].log[j] => i = j
           /\ \A i, j \in 1..Len(call[p].trace) :
                 ( /\ call[p].trace[i].kind = call[p].trace[j].kind
                   /\ call[p].trace[i].tool = call[p].trace[j].tool ) => i = j

\* C16: run_docker_container, execute_code and code_formatter give a
\* language argument the same canonical name, and each of them gives that
\* name back when it is handed the canonical name
C16_AliasResolution ==
    \A p \in Procs :
        (pc[p] = "done" /\ call[p].op = "normalize_language")
        => /\ result[p].first.execute_code = result[p].first.run_docker_container
           /\ result[p].first.code_formatter = result[p].first.run_docker_container
           /\ \A f \in {"run_docker_container", "execute_code", "code_formatter"} :
                 result[p].again[f] = result[p].first

\* an alias in upper case and between blanks was resolved
C16_Witness ==
    \E p \in Procs :
        /\ pc[p] = "done"
        /\ call[p].op = "normalize_language"
        /\ call[p].raw = <<" ", "PY", " ", " ">>
        /\ result[p].first.code_formatter = "python"

\* C17: LANGUAGE_IMAGES, LANGUAGE_EXTENSIONS and EXECUTION_COMMANDS have the
\* same keys, and a run_docker_container call for a language of the support
\* matrix, or for a name an alias resolves to, finds its language in all
\* three
C17_CompleteLanguageSpecs ==
    /\ LANGUAGE_IMAGES = DOMAIN LANGUAGE_EXTENSIONS
    /\ LANGUAGE_IMAGES = EXECUTION_COMMANDS_KEYS
    /\ \A p \in Procs :
          ( /\ pc[p] \in {"done", "hung"}
            /\ call[p].op = "run_docker_container"
            /\ call[p].language \in
                  {"python", "javascript", "typescript", "java", "c", "cpp",
                   "go", "rust", "ruby", "php", "csharp"}
                  \cup {language_mapping[a] : a \in DOMAIN language_mapping} )
          => /\ call[p].language \in LANGUAGE_IMAGES
             /\ call[p].language \in DOMAIN LANGUAGE_EXTENSIONS
             /\ call[p].language \in EXECUTION_COMMANDS_KEYS

\* C18: run_docker_container writes a Java source that declares public
\* class Hello to Hello.java, and every other program to program.<ext>,
\* <ext> the extension registered for its language
C18_FileNaming ==
    \A p \in Procs :
        ( /\ pc[p] \in {"done", "hung"}
          /\ call[p].op = "run_docker_container"
          /\ \E i \in 1..Len(call[p].log) : call[p].log[i] = "write_file" )
        => call[p].filename =
              IF call[p].language = "java" /\ call[p].code = "class Hello"
              THEN "Hello.java"
              ELSE "program" \o ExtensionOf(call[p].language)

\* C19: the language of an ExecutionResult is the canonical name of the
\* language argument, and it is the language of the environment that ran
\* the program
C19_ResultLanguage ==
    \A p \in Procs :
        ( /\ pc[p] = "done"
          /\ call[p].op \in {"run_docker_container", "execute_code"}
          /\ "execution_id" \in DOMAIN result[p] )
        => /\ result[p].language = GetOrSelf(language_mapping,
                                             Text(Strip(Lower(call[p].raw))))
           /\ result[p].language \notin DOMAIN language_mapping
           /\ result[p].language = envs[call[p].env].language

C23_TeardownReleases ==
    [][\A s \in DOMAIN docker_environments :
          ( \/ s \notin DOMAIN docker_environments'
            \/ docker_environments'[s] # docker_environments[s] )
          => envs[docker_environments[s]].container \notin DOMAIN conts'
      ]_vars

\* C27: stop() on an inactive environment succeeds and changes nothing;
\* after a stop() that returned success the environment is inactive and its
\* container is removed (cleanup) or no longer running; after a stop() that
\* returned failure the container is still running
C27_StopConsistent ==
    [][\A p \in Procs :
          (pc[p] = "idle" /\ call'[p].op = "stop") =>
             LET e == call'[p].env
                 c == envs[e].container
             IN  /\ ~envs[e].active
                       => /\ result'[p].success
                          /\ envs' = envs /\ conts' = conts
                 /\ (envs[e].active /\ result'[p].success)
                       => /\ ~envs'[e].active
                          /\ IF call'[p].cleanup THEN c \notin DOMAIN conts'
                             ELSE conts'[c].status = "exited"
                 /\ ~result'[p].success
                       => /\ envs'[e].active
                          /\ c \in DOMAIN conts'
                          /\ conts'[c].status = "running"
      ]_vars

\* C24: _exec_command runs the command a second time, redirected to a file
\* that it reads back, exactly when the first exec_run answered with status
\* 0 and nothing on either stream; and then the status and the stderr it
\* returns are the ones of the first exec_run
C24_SecondaryCapture ==
    \A p \in Procs :
        ( /\ pc[p] = "done"
          /\ call[p].op = "_exec_command"
          /\ call[p].primary # NoResult )
        => /\ Len(call[p].log) = 2
                 <=> /\ call[p].primary.stdout = ""
                     /\ call[p].primary.stderr = ""
                     /\ call[p].primary.exit_code = 0
           /\ Len(call[p].log) = 2
                 => /\ result[p].exit_code = call[p].primary.exit_code
                    /\ result[p].stderr = call[p].primary.stderr

\* C25: the stdout of an ExecutionResult is text the command wrote: a
\* program that does not print the text of its print statement when it runs
\* does not get it as stdout
C25_CapturedOnly ==
    \A p \in Procs :
        ( /\ pc[p] = "done"
          /\ call[p].op = "run_docker_container"
          /\ "execution_id" \in DOMAIN result[p]
          /\ Behaviour(call[p].code).out # PrintStatement(call[p].code) )
        => result[p].stdout # PrintStatement(call[p].code)

\* C26: an execute_code call that returns leaves the language of its
\* environment as it was, whatever it returns and whatever language it ran
C26_LanguageKept ==
    [][\A p \in Procs :
          ( /\ pc[p] = "idle" /\ pc'[p] = "done"
            /\ call'[p].op = "execute_code" )
          => envs'[call'[p].env].language = envs[call'[p].env].language
      ]_vars

\* an execute_code call ran a program in a language that is not the one of
\* its environment, and returned its ExecutionResult
C26_Witness ==
    \E p \in Procs :
        /\ pc[p] = "done"
        /\ call[p].op = "execute_code"
        /\ "execution_id" \in DOMAIN result[p]
        /\ call[p].trace # << >>
        /\ result[p].language # envs[call[p].env].language

\* C28: on an environment that is not active, read_file, delete_file and
\* list_files return {success: False, error: "Container not active"} and
\* leave the environment, its known files and the daemon's containers as
\* they were; write_file and execute_code start the environment first: it
\* is active afterwards, with a new container, unless the daemon refuses
\* the container's name
C28_InactiveFrame ==
    [][\A p \in Procs :
          ( /\ pc[p] = "idle" /\ pc'[p] # "idle"
            /\ call'[p].op \in {"read_file", "delete_file", "list_files",
                                "write_file", "execute_code"}
            /\ ~envs[call'[p].env].active )
          => IF call'[p].op \in {"read_file", "delete_file", "list_files"}
             THEN /\ result'[p] = [success |-> FALSE,
                                   error |-> "Container not active"]
                  /\ envs' = envs /\ conts' = conts /\ made' = made
             ELSE IF NameInUse(conts, envs[call'[p].env].session_id)
             THEN /\ ~envs'[call'[p].env].active
                  /\ made'.conts = made.conts
             ELSE /\ envs'[call'[p].env].active
                  /\ made'.conts = made.conts + 1
                  /\ envs'[call'[p].env].container = made'.conts
                  /\ conts'[made'.conts].status = "running"
      ]_vars

\* delete_file was called on an environment that was stopped, and refused
C28_Witness ==
    \E p \in Procs :
        /\ pc[p] = "done"
        /\ call[p].op = "delete_file"
        /\ ~envs[call[p].env].active
        /\ envs[call[p].env].files # {}
        /\ result[p] = [success |-> FALSE, error |-> "Container not active"]

\* C29: every file write and every subprocess of an execute_shell call
\* happens while the working directory is code_files, and once every call
\* has returned the working directory is the one the process started in
C29_ConfinedAndRestored ==
    /\ \A p \in DOMAIN call : \A i \in DOMAIN call[p].where :
          call[p].where[i] = RestrictedDir
    /\ (\A p \in DOMAIN pc : pc[p] \in {"idle", "done"}) => cwd = StartDir

\* C30: an execute_shell call whose command does not start with an allowed
\* word, the empty command included, returns the "not allowed" error, and
\* no step of it runs a subprocess, writes a file or changes the working
\* directory
C30_Rejected ==
    [][\A p \in DOMAIN pc :
          ( /\ pc'[p] # pc[p]
            /\ call'[p].op = "execute_shell"
            /\ ( \/ call'[p].command = << >>
                 \/ call'[p].command[1] \notin ALLOWED_COMMANDS ) )
          => /\ cwd' = cwd
             /\ call'[p].trace = << >>
             /\ call'[p].where = << >>
             /\ pc'[p] \in {"announced", "refused", "done"}
             /\ pc'[p] = "done"
                   => result'[p] = [returned |-> "Error: Command is not allowed"]
      ]_vars

\* a call with a command that is not allowed returned while another task
\* was inside a call of its own, in code_files
C30_Witness ==
    \E p \in DOMAIN pc, q \in DOMAIN pc :
        /\ pc[p] = "done"
        /\ call[p].op = "execute_shell"
        /\ call[p].command = <<"curl", "example.com">>
        /\ result[p] = [returned |-> "Error: Command is not allowed"]
        /\ pc[q] = "entered"
        /\ cwd = RestrictedDir

====
